---- MODULE Spec2Model ----
(***************************************************************************)
(* tbp-dedupe: incremental file index (scanner + SQLite store) and the     *)
(* duplicate resolution handlers (keep-original), as a state machine.      *)
(*                                                                         *)
(* Strings are sequences of character codes, so that String.length and the *)
(* BINARY collation of ORDER BY path are computed as the code computes     *)
(* them.  A filesystem location is a sequence of path segments relative to *)
(* baseDir.                                                                *)
(***************************************************************************)
EXTENDS Integers, Sequences, FiniteSets, TLC

\* ------------------------------------------------------------------ bounds
NContents == 2
MaxExt == 2
MaxRuns == 2
MaxReq == 2
MaxCalls == 3

\* ------------------------------------------------------- characters, names
Slash == 47
Backslash == 92

\* "@duplicates", the quarantine directory name
DuplicatesDirName == <<64, 100, 117, 112, 108, 105, 99, 97, 116, 101, 115>>

\* the plain target directory name "t"
PlainDirName == <<116>>

\* a target directory "u" holding an entry whose name contains a backslash
\* (an ordinary character of a POSIX file name)
BackslashDirName == <<117>>

TargetNames == {PlainDirName, DuplicatesDirName, BackslashDirName}

\* the file positions of the scanned tree, relative to baseDir:
\*   t/j  t/k  t/1/y                                    under a target "t"
\*   @duplicates/k  @duplicates/1/y  @duplicates/@duplicates/1/y
\*                                            under a target "@duplicates"
\*   u/1/y  u/1\y   (the file y in the directory 1, and the file named 1\y)
\*                                            under a target "u"
TreeLocs(tn) ==
    IF tn = PlainDirName
    THEN {<<tn, <<106>>>>, <<tn, <<107>>>>, <<tn, <<49>>, <<121>>>>}
    ELSE IF tn = DuplicatesDirName
    THEN {<<tn, <<107>>>>, <<tn, <<49>>, <<121>>>>,
          <<tn, DuplicatesDirName, <<49>>, <<121>>>>}
    ELSE {<<tn, <<49>>, <<121>>>>, <<tn, <<49, Backslash, 121>>>>}

Absent == 0
Contents == 1 .. NContents

\* byte length of each content (identical content has identical length)
SizeOf(c) == IF c = 1 THEN 100 ELSE 1500 * (c - 1)

\* records of missing files and files on disk in the scans of the progress
\* arithmetic
MaxMissing == 501
MaxCount == 2

\* segments of the path of an open-file request
MaxSegs == 3

\* --------------------------------------------------------------- variables
VARIABLES
    targetDirName,  \* vars.js: basename of the scanned target
    pathSep,        \* path.sep of the platform
    fs,             \* the disk: location -> content (Absent when no file)
    dbFile,         \* whether the store file <target>.dedupe exists
    files,          \* rows of the files table
    meta,           \* rows of the metadata table (0: key not set)
    pc,             \* position of the process
    dbExists,       \* vars.js: dbExists, evaluated once at launch
    stack,          \* processDirectory activations: remaining entries
    cur,            \* the file whose hashFile promise is pending
    progress,       \* ProgressTracker
    counters,       \* scanDirectory / processDirectory tallies
    resp,           \* last HTTP response of the resolution route (renames:
                    \* history, the moves or deletions carried out)
    db,             \* files.js: the module's connection variable
    exitCode,       \* how the process ended, when it has
    call,           \* a direct call of an exported function: inputs, result
    runs,           \* launches so far
    ext,            \* external filesystem changes so far
    changed,        \* history: the disk changed since the running scan started
    goneAtStart,    \* history: paths recorded but absent at scan start
    lastDone,       \* history: the previous completed scan
    result,         \* history: aggregate result of the last completed scan
    argv,           \* vars.js: the command line (force)
    dbLocked,       \* the store file cannot be removed (held elsewhere)
    auto,           \* result of autoRemoveDuplicates (moved: history)
    txn,            \* the open transaction of cleanupMissingFiles
    filesAtStart    \* history: the rows when the running scan started

vars == <<targetDirName, pathSep, fs, dbFile, files, meta, pc, dbExists, stack, cur,
          progress, counters, resp, db, exitCode, call, runs, ext, changed,
          goneAtStart, lastDone, result, argv, dbLocked, auto, txn,
          filesAtStart>>

\* ------------------------------------------------------------ path strings
RECURSIVE JoinWith(_, _)
JoinWith(segs, sep) ==
    IF segs = <<>> THEN <<>>
    ELSE IF Len(segs) = 1 THEN segs[1]
    ELSE segs[1] \o <<sep>> \o JoinWith(Tail(segs), sep)

\* String.prototype.split(sep) for a one-character separator
RECURSIVE SplitOn(_, _)
SplitOn(str, sep) ==
    IF \A i \in 1 .. Len(str) : str[i] # sep THEN <<str>>
    ELSE LET i == CHOOSE k \in 1 .. Len(str) :
                      str[k] = sep /\ \A m \in 1 .. k - 1 : str[m] # sep
         IN <<SubSeq(str, 1, i - 1)>> \o SplitOn(SubSeq(str, i + 1, Len(str)), sep)

\* path.relative(baseDir, fullPath): the segments joined by path.sep
relative(loc) == JoinWith(loc, pathSep)

\* path.join(baseDir, p): the location a stored path string names; win32
\* takes both '/' and '\' as separators, POSIX only '/'
pathJoin(str) ==
    LET normalized == IF pathSep = Backslash
                      THEN JoinWith(SplitOn(str, Backslash), Slash)
                      ELSE str
    IN SelectSeq(SplitOn(normalized, Slash), LAMBDA s : s # <<>>)

\* byte-wise string comparison (BINARY collation)
StrLess(a, b) ==
    /\ a # b
    /\ \E i \in 1 .. Len(a) + 1 :
         /\ i <= Len(b) + 1
         /\ \A m \in 1 .. i - 1 : a[m] = b[m]
         /\ \/ i = Len(a) + 1
            \/ i <= Len(a) /\ i <= Len(b) /\ a[i] < b[i]

hashPath(filePath) == <<"md5", filePath>>

parseFilePath(filePath) ==
    LET normalizedPath == JoinWith(SplitOn(filePath, Backslash), Slash)
        parts == SplitOn(normalizedPath, Slash)
        fileName == parts[Len(parts)]
        directory == JoinWith(SubSeq(parts, 1, Len(parts) - 1), Slash)
    IN [id |-> hashPath(directory \o <<Slash>> \o fileName),
        fullname |-> fileName,
        directory |-> directory]

\* the digest of a content: an equality oracle
contentDigest(c) == <<"md5", c>>

\* formatSize: value rounded to two decimals (kept in hundredths) and the
\* index of the unit in ['Bytes', 'KB', 'MB', 'GB', 'TB']
UnitBase == 1024

RECURSIVE Pow(_, _)
Pow(b, n) == IF n = 0 THEN 1 ELSE b * Pow(b, n - 1)

formatSize(bytes) ==
    IF bytes = 0 THEN [hundredths |-> 0, unit |-> 0]
    ELSE LET i == CHOOSE k \in 0 .. 4 :
                      Pow(UnitBase, k) <= bytes /\ bytes < Pow(UnitBase, k + 1)
         IN [hundredths |-> (2 * 100 * bytes + Pow(UnitBase, i)) \div (2 * Pow(UnitBase, i)),
             unit |-> i]

\* -------------------------------------------------------------- filesystem
targetDir == <<targetDirName>>

\* path.join(duplicatesDir, file.path)
QuarantineLoc(loc) == <<DuplicatesDirName>> \o loc

Locs(tn) == TreeLocs(tn) \cup {QuarantineLoc(l) : l \in TreeLocs(tn)}

IsPrefix(d, p) == Len(d) < Len(p) /\ SubSeq(p, 1, Len(d)) = d

existsFile(f, loc) == loc \in DOMAIN f /\ f[loc] # Absent

\* a directory position of the tree (directories outlive their files)
isDirectory(f, loc) == \E p \in DOMAIN f : IsPrefix(loc, p)

RECURSIVE SortStrings(_)
SortStrings(S) ==
    IF S = {} THEN <<>>
    ELSE LET m == CHOOSE x \in S : \A y \in S \ {x} : StrLess(x, y)
         IN <<m>> \o SortStrings(S \ {m})

\* fs.readdirSync(dir): the names of the entries of dir, in listing order
readdirSync(f, dir) ==
    SortStrings({p[Len(dir) + 1] : p \in {q \in DOMAIN f : f[q] # Absent /\ IsPrefix(dir, q)}})

\* mutant: a position is counted whether a file is there or not
countFiles_All(f, dir) == Cardinality({q \in DOMAIN f : IsPrefix(dir, q)})

\* countFiles: the non-directory entries under dir
countFiles(f, dir) == Cardinality({q \in DOMAIN f : f[q] # Absent /\ IsPrefix(dir, q)})

\* ------------------------------------------------------------------- store
\* mutant: the lookup by id finds nothing
getFileById_None(tbl, id) == {}

\* SELECT path, hash, size FROM files WHERE id = ?
getFileById(tbl, id) == {r \in tbl : r.id = id}

RECURSIVE SortRows(_)
SortRows(S) ==
    IF S = {} THEN <<>>
    ELSE LET m == CHOOSE x \in S : \A y \in S \ {x} : StrLess(x.path, y.path)
         IN <<m>> \o SortRows(S \ {m})

\* SELECT path, size FROM files WHERE hash = ? ORDER BY path
getFilesByHash(tbl, h) ==
    SortRows({[path |-> r.path, size |-> r.size] : r \in {x \in tbl : x.hash = h}})

\* mutant: HAVING count > 2
getDuplicates_MoreThanTwo(tbl) ==
    {g \in {[hash |-> h, count |-> Cardinality({r \in tbl : r.hash = h})] :
                h \in {r.hash : r \in tbl}} : g.count > 2}

\* SELECT hash, COUNT(*) as count FROM files GROUP BY hash HAVING count > 1
getDuplicates(tbl) ==
    {g \in {[hash |-> h, count |-> Cardinality({r \in tbl : r.hash = h})] :
                h \in {r.hash : r \in tbl}} : g.count > 1}

\* no connection: the module variable db is null
NullDb == [handle |-> 0, live |-> {}, opened |-> 0]

\* mutant: db.close() is called without the test of db
closeDatabase_Unguarded(d) ==
    IF d.handle # 0
    THEN [db |-> [d EXCEPT !.live = @ \ {d.handle}, !.handle = 0], threw |-> FALSE]
    ELSE [db |-> d, threw |-> TRUE]

\* closeDatabase: closes the connection the module holds, if it holds one;
\* an error of close() is caught and logged
closeDatabase(d) ==
    IF d.handle # 0
    THEN [db |-> [d EXCEPT !.live = @ \ {d.handle}, !.handle = 0], threw |-> FALSE]
    ELSE [db |-> d, threw |-> FALSE]

\* mutant: the connection held is not closed before the new one is opened
initializeDatabase_NoClose(d) ==
    [handle |-> d.opened + 1,
     live |-> d.live \cup {d.opened + 1},
     opened |-> d.opened + 1]

\* initializeDatabase: closes the connection held, then opens a new one
initializeDatabase(d) ==
    LET c == IF d.handle # 0 THEN closeDatabase(d).db ELSE d
    IN [handle |-> c.opened + 1,
        live |-> c.live \cup {c.opened + 1},
        opened |-> c.opened + 1]

\* ----------------------------------------------------------------- initial
NoCall == [seq |-> 0, fn |-> "none", args |-> <<>>, ret |-> <<>>]
NoFile == [loc |-> <<>>, path |-> <<>>, id |-> <<>>, size |-> 0]
NoResp == [seq |-> 0, status |-> 0, hash |-> <<>>, rows |-> <<>>, kept |-> <<>>,
           movedCount |-> 0, freedSpace |-> formatSize(0), renames |-> 0]
NoScan == [done |-> FALSE, same |-> FALSE, files |-> {}]
NoResult == [done |-> FALSE, files |-> {}, newFilesAdded |-> 0, newFilesSize |-> 0,
             removedCount |-> 0, removedSize |-> 0, prev |-> NoScan]
ZeroCounters == [newFilesAdded |-> 0, newFilesSize |-> 0,
                 removedCount |-> 0, removedSize |-> 0]
NoAuto == [run |-> 0, success |-> FALSE, setsProcessed |-> 0, filesRemoved |-> 0,
           spaceFreed |-> 0, moved |-> {}]
NoTxn == [rows |-> <<>>, deleted |-> {}]

\* the process not started, no store file yet
Idle ==
    /\ dbFile = FALSE
    /\ files = {}
    /\ meta = [scan_start_time |-> 0, scan_end_time |-> 0]
    /\ pc = "off"
    /\ dbExists = FALSE
    /\ stack = <<>>
    /\ cur = NoFile
    /\ progress = [totalFiles |-> 0, processedFiles |-> 0]
    /\ counters = ZeroCounters
    /\ resp = NoResp
    /\ runs = 0
    /\ ext = 0
    /\ changed = FALSE
    /\ goneAtStart = {}
    /\ lastDone = NoScan
    /\ result = NoResult
    /\ db = NullDb
    /\ exitCode = "none"
    /\ argv = [force |-> FALSE]
    /\ dbLocked = FALSE
    /\ auto = NoAuto
    /\ txn = NoTxn
    /\ filesAtStart = {}

\* any tree on a POSIX platform; on win32 (where no name holds a backslash)
\* the plain target
Init ==
    /\ targetDirName \in TargetNames
    /\ pathSep \in {Slash, Backslash}
    /\ pathSep = Backslash => targetDirName = PlainDirName
    /\ fs \in {f \in [Locs(targetDirName) -> {Absent} \cup Contents] :
                  \A l \in Locs(targetDirName) \ TreeLocs(targetDirName) : f[l] = Absent}
    /\ call = NoCall
    /\ Idle

\* ------------------------------------------------------------- environment
\* another process removes a file
ExtDelete(l) ==
    /\ ext < MaxExt
    /\ existsFile(fs, l)
    /\ fs' = [fs EXCEPT ![l] = Absent]
    /\ ext' = ext + 1
    /\ changed' = TRUE
    /\ UNCHANGED <<auto, argv, dbLocked, filesAtStart, txn,
                   targetDirName, pathSep, call, dbFile, files, meta, pc, dbExists, stack, cur,
                   progress, counters, resp, runs, goneAtStart,
                   lastDone, result, db, exitCode>>

\* another process overwrites a file in place
ExtOverwrite(l, c) ==
    /\ ext < MaxExt
    /\ existsFile(fs, l)
    /\ fs[l] # c
    /\ fs' = [fs EXCEPT ![l] = c]
    /\ ext' = ext + 1
    /\ changed' = TRUE
    /\ UNCHANGED <<auto, argv, dbLocked, filesAtStart, txn,
                   targetDirName, pathSep, call, dbFile, files, meta, pc, dbExists, stack, cur,
                   progress, counters, resp, runs, goneAtStart,
                   lastDone, result, db, exitCode>>

\* the process is terminated from outside (kill, Ctrl-C)
Stop ==
    /\ pc # "off"
    /\ pc' = "off"
    /\ stack' = <<>>
    /\ cur' = NoFile
    /\ db' = NullDb
    /\ exitCode' = "killed"
    /\ txn' = NoTxn
    /\ UNCHANGED <<auto, argv, dbLocked, filesAtStart,
                   targetDirName, pathSep, call, fs, dbFile, files, meta, dbExists, progress,
                   counters, resp, runs, ext, changed,
                   goneAtStart, lastDone, result>>

\* -------------------------------------------------------------------- main
\* module imports (vars.js evaluates dbExists, files.js opens the store) and
\* main up to the call of scanDirectory
Launch ==
    /\ pc = "off"
    /\ runs < MaxRuns
    /\ runs' = runs + 1
    /\ dbExists' = dbFile
    /\ dbFile' = TRUE
    /\ db' = initializeDatabase(NullDb)
    /\ exitCode' = "none"
    /\ pc' = "main"
    /\ resp' = [NoResp EXCEPT !.seq = resp.seq]
    /\ argv' = [force |-> FALSE]
    /\ dbLocked' = FALSE
    /\ UNCHANGED <<auto, filesAtStart, txn,
                   targetDirName, pathSep, call, fs, files, meta, stack, cur, progress,
                   counters, ext, changed, goneAtStart,
                   lastDone, result>>

\* ----------------------------------------------------------------- scanner
\* mutant: no row is found missing
MissingRows_None(tbl, f) == {}

\* mutant: the existence test is inverted
MissingRows_Present(tbl, f) == {r \in tbl : existsFile(f, pathJoin(r.path))}

\* the rows cleanupMissingFiles deletes: those whose file is not on disk
MissingRows(tbl, f) == {r \in tbl : ~existsFile(f, pathJoin(r.path))}

RECURSIVE SumSizes(_)
SumSizes(S) ==
    IF S = {} THEN 0
    ELSE LET r == CHOOSE x \in S : TRUE IN r.size + SumSizes(S \ {r})

\* mutant: the missing rows are counted but not deleted
cleanupMissingFiles_NoDelete(tbl, f) ==
    [files |-> tbl,
     removedCount |-> Cardinality(MissingRows(tbl, f)),
     totalSize |-> SumSizes(MissingRows(tbl, f))]

\* mutant: every row is deleted, whether its file is on disk or not
cleanupMissingFiles_All(tbl, f) ==
    [files |-> {},
     removedCount |-> Cardinality(tbl),
     totalSize |-> SumSizes(tbl)]

\* mutant: the deletions are not tallied
cleanupMissingFiles_Untallied(tbl, f) ==
    [files |-> tbl \ MissingRows(tbl, f),
     removedCount |-> 0,
     totalSize |-> 0]

\* cleanupMissingFiles: the rows whose file is gone are deleted and tallied
cleanupMissingFiles(tbl, f) ==
    [files |-> tbl \ MissingRows(tbl, f),
     removedCount |-> Cardinality(MissingRows(tbl, f)),
     totalSize |-> SumSizes(MissingRows(tbl, f))]

\* return from finished processDirectory activations
RECURSIVE Unwind(_)
Unwind(stk) ==
    IF stk = <<>> THEN <<>>
    ELSE IF stk[Len(stk)].entries = <<>> THEN Unwind(SubSeq(stk, 1, Len(stk) - 1))
    ELSE stk

\* the scan goes on with the activations stk; when none is left scanDirectory
\* records the end time and main starts the server
Continue(stk, tbl, cnt, m, last, chg) ==
    LET rest == Unwind(stk) IN
    /\ stack' = rest
    /\ cur' = NoFile
    /\ UNCHANGED <<db, exitCode>>
    /\ IF rest = <<>>
       THEN /\ meta' = [m EXCEPT !.scan_end_time = runs]
            /\ pc' = "serving"
            /\ result' = [done |-> TRUE,
                          newFilesAdded |-> cnt.newFilesAdded,
                          newFilesSize |-> cnt.newFilesSize,
                          removedCount |-> cnt.removedCount,
                          removedSize |-> cnt.removedSize,
                          files |-> tbl,
                          prev |-> [last EXCEPT !.same = @ /\ ~chg]]
            /\ lastDone' = [done |-> TRUE, same |-> ~chg, files |-> tbl]
       ELSE /\ meta' = m
            /\ pc' = "walk"
            /\ lastDone' = last
            /\ UNCHANGED result

Popped(stk) ==
    [stk EXCEPT ![Len(stk)].entries = Tail(stk[Len(stk)].entries)]

\* the buffer added to the total when resuming
ProgressBuffer == 500

\* scanDirectory up to the first entry: metadata, the counting pre-pass,
\* reconciliation when the store existed at launch, the listing of the target
ScanStart ==
    /\ pc = "main"
    /\ LET total == countFiles(fs, targetDir)
           clean == IF dbExists THEN cleanupMissingFiles(files, fs)
                    ELSE [files |-> files, removedCount |-> 0, totalSize |-> 0]
           cnt == [ZeroCounters EXCEPT !.removedCount = clean.removedCount,
                                       !.removedSize = clean.totalSize]
       IN /\ files' = clean.files
          /\ counters' = cnt
          /\ progress' = [totalFiles |-> IF dbExists THEN total + ProgressBuffer ELSE total,
                          processedFiles |-> clean.removedCount]
          /\ changed' = FALSE
          /\ filesAtStart' = files
          /\ goneAtStart' = {r.path : r \in {x \in files : ~existsFile(fs, pathJoin(x.path))}}
          /\ Continue(<<[dir |-> targetDir, entries |-> readdirSync(fs, targetDir)]>>,
                      clean.files, cnt,
                      [meta EXCEPT !.scan_start_time = runs],
                      [lastDone EXCEPT !.same = @ /\ ~changed], FALSE)
    /\ UNCHANGED <<auto, argv, dbLocked, txn,
                   targetDirName, pathSep, call, fs, dbFile, dbExists, resp, runs, ext>>

\* process.exit(1) from main's catch
Crash ==
    /\ pc' = "off"
    /\ stack' = <<>>
    /\ cur' = NoFile
    /\ db' = NullDb
    /\ exitCode' = "exit1"
    /\ UNCHANGED <<files, meta, progress, counters, result, lastDone>>

\* mutant: hashFile is not awaited, the loop goes on while a hash is pending
ProcessEntry_NoAwait ==
    /\ (pc = "walk" \/ (pc = "hashing" /\ stack # <<>> /\ stack[Len(stack)].entries # <<>>))
    /\ LET top == stack[Len(stack)]
           fullPath == top.dir \o <<Head(top.entries)>>
           relativePath == relative(fullPath)
           fileInfo == parseFilePath(relativePath)
       IN IF ~existsFile(fs, fullPath) /\ ~isDirectory(fs, fullPath)
          THEN Crash            \* statSync throws
          ELSE IF isDirectory(fs, fullPath)
          THEN /\ Continue(Append(Popped(stack),
                                  [dir |-> fullPath, entries |-> readdirSync(fs, fullPath)]),
                           files, counters, meta, lastDone, changed)
               /\ UNCHANGED <<files, progress, counters>>
          ELSE IF getFileById(files, fileInfo.id) # {}
          THEN /\ progress' = [progress EXCEPT !.processedFiles = @ + 1]
               /\ Continue(Popped(stack), files, counters, meta, lastDone, changed)
               /\ UNCHANGED <<files, counters>>
          ELSE /\ pc' = "hashing"
               /\ cur' = [loc |-> fullPath, path |-> relativePath,
                          id |-> fileInfo.id, size |-> SizeOf(fs[fullPath])]
               /\ stack' = Popped(stack)
               /\ UNCHANGED <<files, meta, progress, counters, result, lastDone,
                              db, exitCode>>
    /\ UNCHANGED <<auto, argv, dbLocked, filesAtStart, txn,
                   targetDirName, pathSep, call, fs, dbFile, dbExists, resp, runs, ext, changed,
                   goneAtStart>>

\* mutant: the recursive call is put off until the entries of the directory
\* are done
ProcessEntry_Deferred ==
    /\ pc = "walk"
    /\ LET top == stack[Len(stack)]
           fullPath == top.dir \o <<Head(top.entries)>>
           relativePath == relative(fullPath)
           fileInfo == parseFilePath(relativePath)
       IN IF ~existsFile(fs, fullPath) /\ ~isDirectory(fs, fullPath)
          THEN Crash            \* statSync throws
          ELSE IF isDirectory(fs, fullPath)
          THEN /\ Continue(<<[dir |-> fullPath, entries |-> readdirSync(fs, fullPath)]>>
                                \o Popped(stack),
                           files, counters, meta, lastDone, changed)
               /\ UNCHANGED <<files, progress, counters>>
          ELSE IF getFileById(files, fileInfo.id) # {}
          THEN /\ progress' = [progress EXCEPT !.processedFiles = @ + 1]
               /\ Continue(Popped(stack), files, counters, meta, lastDone, changed)
               /\ UNCHANGED <<files, counters>>
          ELSE /\ pc' = "hashing"
               /\ cur' = [loc |-> fullPath, path |-> relativePath,
                          id |-> fileInfo.id, size |-> SizeOf(fs[fullPath])]
               /\ stack' = Popped(stack)
               /\ UNCHANGED <<files, meta, progress, counters, result, lastDone,
                              db, exitCode>>
    /\ UNCHANGED <<auto, argv, dbLocked, filesAtStart, txn,
                   targetDirName, pathSep, call, fs, dbFile, dbExists, resp, runs, ext, changed,
                   goneAtStart>>

\* one iteration of the loop of processDirectory, up to the await of hashFile
ProcessEntry ==
    /\ pc = "walk"
    /\ LET top == stack[Len(stack)]
           fullPath == top.dir \o <<Head(top.entries)>>
           relativePath == relative(fullPath)
           fileInfo == parseFilePath(relativePath)
       IN IF ~existsFile(fs, fullPath) /\ ~isDirectory(fs, fullPath)
          THEN Crash            \* statSync throws
          ELSE IF isDirectory(fs, fullPath)
          THEN /\ Continue(Append(Popped(stack),
                                  [dir |-> fullPath, entries |-> readdirSync(fs, fullPath)]),
                           files, counters, meta, lastDone, changed)
               /\ UNCHANGED <<files, progress, counters>>
          ELSE IF getFileById(files, fileInfo.id) # {}
          THEN /\ progress' = [progress EXCEPT !.processedFiles = @ + 1]
               /\ Continue(Popped(stack), files, counters, meta, lastDone, changed)
               /\ UNCHANGED <<files, counters>>
          ELSE /\ pc' = "hashing"
               /\ cur' = [loc |-> fullPath, path |-> relativePath,
                          id |-> fileInfo.id, size |-> SizeOf(fs[fullPath])]
               /\ stack' = Popped(stack)
               /\ UNCHANGED <<files, meta, progress, counters, result, lastDone,
                              db, exitCode>>
    /\ UNCHANGED <<auto, argv, dbLocked, filesAtStart, txn,
                   targetDirName, pathSep, call, fs, dbFile, dbExists, resp, runs, ext, changed,
                   goneAtStart>>

\* mutant: INSERT OR REPLACE
insertFile_Replace(tbl, row) ==
    [ok |-> TRUE, files |-> {r \in tbl : r.id # row.id} \cup {row}]

\* INSERT INTO files: the primary key rejects a present id
insertFile(tbl, row) ==
    IF getFileById(tbl, row.id) # {} THEN [ok |-> FALSE, files |-> tbl]
    ELSE [ok |-> TRUE, files |-> tbl \cup {row}]

\* the hashFile promise settles; the row is inserted
HashDone ==
    /\ pc = "hashing"
    /\ IF ~existsFile(fs, cur.loc)
       THEN Crash               \* the stream errors, the rejection reaches main
       ELSE LET ins == insertFile(files, [id |-> cur.id, path |-> cur.path,
                                          hash |-> contentDigest(fs[cur.loc]),
                                          size |-> cur.size])
                cnt == IF ins.ok
                       THEN [counters EXCEPT !.newFilesAdded = @ + 1,
                                             !.newFilesSize = @ + cur.size]
                       ELSE counters
            IN /\ files' = ins.files
               /\ counters' = cnt
               /\ progress' = IF ins.ok
                              THEN [progress EXCEPT !.processedFiles = @ + 1]
                              ELSE progress
               /\ Continue(stack, ins.files, cnt, meta, lastDone, changed)
    /\ UNCHANGED <<auto, argv, dbLocked, filesAtStart, txn,
                   targetDirName, pathSep, call, fs, dbFile, dbExists, resp, runs, ext, changed,
                   goneAtStart>>

\* ------------------------------------------------------ resolution (routes)
\* mutant: <= in place of <, the last of the shortest wins
RECURSIVE reduceShortest_OrEqual(_, _)
reduceShortest_OrEqual(shortest, rows) ==
    IF rows = <<>> THEN shortest
    ELSE reduceShortest_OrEqual(IF Len(rows[1].path) <= Len(shortest.path)
                                THEN rows[1] ELSE shortest,
                                Tail(rows))

\* files.reduce((shortest, current) =>
\*     current.path.length < shortest.path.length ? current : shortest)
RECURSIVE reduceShortest(_, _)
reduceShortest(shortest, rows) ==
    IF rows = <<>> THEN shortest
    ELSE reduceShortest(IF Len(rows[1].path) < Len(shortest.path) THEN rows[1] ELSE shortest,
                        Tail(rows))

chooseOriginal(rows) == reduceShortest(rows[1], Tail(rows))

\* mutant: the original is not filtered out
duplicateFilesOf_All(rows, original) == rows

\* files.filter(file => file.path !== original.path)
duplicateFilesOf(rows, original) == SelectSeq(rows, LAMBDA r : r.path # original.path)

RECURSIVE totalSize(_)
totalSize(rows) == IF rows = <<>> THEN 0 ELSE rows[1].size + totalSize(Tail(rows))

\* fs.renameSync(sourcePath, destPath): throws when the source is missing,
\* replaces a file already at the destination
renameSync(f, src, dst) ==
    IF ~existsFile(f, src) THEN [ok |-> FALSE, fs |-> f]
    ELSE [ok |-> TRUE, fs |-> [f EXCEPT ![dst] = f[src], ![src] = Absent]]

\* duplicateFiles.forEach(move): the first throw leaves forEach
RECURSIVE moveEach(_, _, _)
moveEach(f, rows, n) ==
    IF rows = <<>> THEN [ok |-> TRUE, fs |-> f, moved |-> n]
    ELSE LET sourcePath == pathJoin(rows[1].path)
             mv == renameSync(f, sourcePath, QuarantineLoc(sourcePath))
         IN IF mv.ok THEN moveEach(mv.fs, Tail(rows), n + 1)
            ELSE [ok |-> FALSE, fs |-> f, moved |-> n]

\* fs.unlinkSync(fullPath)
unlinkSync(f, loc) ==
    IF ~existsFile(f, loc) THEN [ok |-> FALSE, fs |-> f]
    ELSE [ok |-> TRUE, fs |-> [f EXCEPT ![loc] = Absent]]

RECURSIVE unlinkEach(_, _, _)
unlinkEach(f, rows, n) ==
    IF rows = <<>> THEN [ok |-> TRUE, fs |-> f, moved |-> n]
    ELSE LET rm == unlinkSync(f, pathJoin(rows[1].path))
         IN IF rm.ok THEN unlinkEach(rm.fs, Tail(rows), n + 1)
            ELSE [ok |-> FALSE, fs |-> f, moved |-> n]

\* mutant: < 1 in place of <= 1
noDuplicates_Empty(rows) == Len(rows) < 1

\* if (files.length <= 1) -> 400
noDuplicates(rows) == Len(rows) <= 1

\* the destinations of the moves stay inside the modelled part of the disk
InReach(rows) ==
    \A i \in 1 .. Len(rows) : QuarantineLoc(pathJoin(rows[i].path)) \in DOMAIN fs

Respond(r) == resp' = [r EXCEPT !.seq = resp.seq + 1]

\* mutant: the server is started before the scan, a request is handled
\* whenever the process runs
KeepOriginal_Early(hash) ==
    /\ pc # "off"
    /\ resp.seq < MaxReq
    /\ LET rows == getFilesByHash(files, hash) IN
       IF noDuplicates(rows)
       THEN /\ Respond([NoResp EXCEPT !.status = 400, !.hash = hash, !.rows = rows])
            /\ UNCHANGED <<fs, changed>>
       ELSE LET original == chooseOriginal(rows)
                duplicateFiles == duplicateFilesOf(rows, original)
                totalSizeFreed == totalSize(duplicateFiles)
                done == moveEach(fs, duplicateFiles, 0)
            IN /\ InReach(duplicateFiles)
               /\ fs' = done.fs
               /\ changed' = (changed \/ done.moved > 0)
               /\ IF done.ok
                  THEN Respond([NoResp EXCEPT !.status = 200, !.hash = hash,
                                              !.rows = rows,
                                              !.kept = original.path,
                                              !.movedCount = Len(duplicateFiles),
                                              !.freedSpace = formatSize(totalSizeFreed),
                                              !.renames = done.moved])
                  ELSE Respond([NoResp EXCEPT !.status = 500, !.hash = hash,
                                              !.rows = rows,
                                              !.renames = done.moved])
    /\ UNCHANGED <<auto, argv, dbLocked, filesAtStart, txn,
                   targetDirName, pathSep, call, dbFile, files, meta, pc, dbExists, stack, cur,
                   progress, counters, runs, ext, goneAtStart,
                   lastDone, result, db, exitCode>>

\* POST /api/duplicates/:hash/keep-original (quarantine)
KeepOriginal(hash) ==
    /\ pc = "serving"
    /\ resp.seq < MaxReq
    /\ LET rows == getFilesByHash(files, hash) IN
       IF noDuplicates(rows)
       THEN /\ Respond([NoResp EXCEPT !.status = 400, !.hash = hash, !.rows = rows])
            /\ UNCHANGED <<fs, changed>>
       ELSE LET original == chooseOriginal(rows)
                duplicateFiles == duplicateFilesOf(rows, original)
                totalSizeFreed == totalSize(duplicateFiles)
                done == moveEach(fs, duplicateFiles, 0)
            IN /\ InReach(duplicateFiles)
               /\ fs' = done.fs
               /\ changed' = (changed \/ done.moved > 0)
               /\ IF done.ok
                  THEN Respond([NoResp EXCEPT !.status = 200, !.hash = hash,
                                              !.rows = rows,
                                              !.kept = original.path,
                                              !.movedCount = Len(duplicateFiles),
                                              !.freedSpace = formatSize(totalSizeFreed),
                                              !.renames = done.moved])
                  ELSE Respond([NoResp EXCEPT !.status = 500, !.hash = hash,
                                              !.rows = rows,
                                              !.renames = done.moved])
    /\ UNCHANGED <<auto, argv, dbLocked, filesAtStart, txn,
                   targetDirName, pathSep, call, dbFile, files, meta, pc, dbExists, stack, cur,
                   progress, counters, runs, ext, goneAtStart,
                   lastDone, result, db, exitCode>>

\* POST /api/duplicates/:hash/keep-original (unlink)
KeepOriginalUnlink(hash) ==
    /\ pc = "serving"
    /\ resp.seq < MaxReq
    /\ LET rows == getFilesByHash(files, hash) IN
       IF noDuplicates(rows)
       THEN /\ Respond([NoResp EXCEPT !.status = 400, !.hash = hash, !.rows = rows])
            /\ UNCHANGED <<fs, changed>>
       ELSE LET original == chooseOriginal(rows)
                done == unlinkEach(fs, duplicateFilesOf(rows, original), 0)
            IN /\ fs' = done.fs
               /\ changed' = (changed \/ done.moved > 0)
               /\ IF done.ok
                  THEN Respond([NoResp EXCEPT !.status = 200, !.hash = hash,
                                              !.rows = rows,
                                              !.kept = original.path,
                                              !.renames = done.moved])
                  ELSE Respond([NoResp EXCEPT !.status = 500, !.hash = hash,
                                              !.rows = rows,
                                              !.renames = done.moved])
    /\ UNCHANGED <<auto, argv, dbLocked, filesAtStart, txn,
                   targetDirName, pathSep, call, dbFile, files, meta, pc, dbExists, stack, cur,
                   progress, counters, runs, ext, goneAtStart,
                   lastDone, result, db, exitCode>>

Hashes == {contentDigest(c) : c \in Contents}

\* ------------------------------------------------------------ specification
Environment ==
    \/ \E l \in DOMAIN fs : ExtDelete(l)
    \/ \E l \in DOMAIN fs, c \in Contents : ExtOverwrite(l, c)
    \/ Stop

Scanner ==
    \/ Launch
    \/ ScanStart
    \/ ProcessEntry
    \/ HashDone

Next ==
    \/ Environment
    \/ Scanner
    \/ \E h \in Hashes : KeepOriginal(h)

Spec == Init /\ [][Next]_vars

NextUnlink ==
    \/ Environment
    \/ Scanner
    \/ \E h \in Hashes : KeepOriginalUnlink(h)

SpecUnlink == Init /\ [][NextUnlink]_vars

\* --------------------------------------------- two instances on one store
\* a second instance of the program, scanning the same target into the same
\* store file, inserts the row of a file
ExtInsert(l) ==
    /\ ext < MaxExt
    /\ dbFile
    /\ existsFile(fs, l)
    /\ IsPrefix(targetDir, l)
    /\ files' = insertFile(files, [id |-> parseFilePath(relative(l)).id,
                                   path |-> relative(l),
                                   hash |-> contentDigest(fs[l]),
                                   size |-> SizeOf(fs[l])]).files
    /\ ext' = ext + 1
    /\ UNCHANGED <<auto, argv, dbLocked, filesAtStart, txn,
                   targetDirName, pathSep, call, fs, dbFile, meta, pc, dbExists, stack,
                   cur, progress, counters, resp, db, exitCode, runs, changed,
                   goneAtStart, lastDone, result>>

\* the plain target on POSIX, every file of the tree present
InitShared ==
    /\ Init
    /\ targetDirName = PlainDirName
    /\ pathSep = Slash
    /\ \A l \in TreeLocs(targetDirName) : fs[l] # Absent

NextShared ==
    \/ Next
    \/ \E l \in DOMAIN fs : ExtInsert(l)

SpecShared == InitShared /\ [][NextShared]_vars

\* ------------------------------------------------------- the force flag
\* launch with --force while the store file exists: imports as in Launch, then
\* main reaches the removal of the store
LaunchForce ==
    /\ pc = "off"
    /\ runs < MaxRuns
    /\ dbFile
    /\ runs' = runs + 1
    /\ dbExists' = dbFile
    /\ db' = initializeDatabase(NullDb)
    /\ exitCode' = "none"
    /\ pc' = "force"
    /\ resp' = [NoResp EXCEPT !.seq = resp.seq]
    /\ argv' = [force |-> TRUE]
    /\ dbLocked' \in BOOLEAN
    /\ UNCHANGED <<auto, filesAtStart, txn,
                   targetDirName, pathSep, call, fs, dbFile, files, meta, stack, cur,
                   progress, counters, ext, changed, goneAtStart, lastDone, result>>

\* mutant: the store file is not removed, the connection is opened again on it
ForceRemove_NoUnlink ==
    /\ pc = "force"
    /\ IF dbLocked
       THEN /\ pc' = "off"
            /\ db' = NullDb
            /\ exitCode' = "exit1"
            /\ UNCHANGED <<dbFile, files, meta>>
       ELSE /\ pc' = "main"
            /\ db' = initializeDatabase(closeDatabase(db).db)
            /\ UNCHANGED <<dbFile, files, meta, exitCode>>
    /\ UNCHANGED <<auto, argv, dbLocked, filesAtStart, txn,
                   targetDirName, pathSep, call, fs, dbExists, stack, cur, progress,
                   counters, resp, runs, ext, changed, goneAtStart, lastDone, result>>

\* if (dbExists && argv.force): closeDatabase(), unlinkSync(dbPath) and
\* initializeDatabase(), which creates an empty store; process.exit(1) when
\* unlinkSync throws
ForceRemove ==
    /\ pc = "force"
    /\ IF dbLocked
       THEN /\ pc' = "off"
            /\ db' = NullDb
            /\ exitCode' = "exit1"
            /\ UNCHANGED <<dbFile, files, meta>>
       ELSE /\ pc' = "main"
            /\ db' = initializeDatabase(closeDatabase(db).db)
            /\ dbFile' = TRUE
            /\ files' = {}
            /\ meta' = [scan_start_time |-> 0, scan_end_time |-> 0]
            /\ UNCHANGED exitCode
    /\ UNCHANGED <<auto, argv, dbLocked, filesAtStart, txn,
                   targetDirName, pathSep, call, fs, dbExists, stack, cur, progress,
                   counters, resp, runs, ext, changed, goneAtStart, lastDone, result>>

\* the plain target on POSIX
InitForce ==
    /\ Init
    /\ targetDirName = PlainDirName
    /\ pathSep = Slash

NextForce ==
    \/ Next
    \/ LaunchForce
    \/ ForceRemove

SpecForce == InitForce /\ [][NextForce]_vars

\* ------------------------------------------------- automatic resolution
\* duplicateFiles.forEach with the try/catch around renameSync: a failed move
\* is logged and the loop goes on
RECURSIVE moveEachCaught(_, _)
moveEachCaught(acc, rows) ==
    IF rows = <<>> THEN acc
    ELSE LET sourcePath == pathJoin(rows[1].path)
             mv == renameSync(acc.fs, sourcePath, QuarantineLoc(sourcePath))
         IN moveEachCaught(IF mv.ok
                           THEN [fs |-> mv.fs,
                                 filesRemoved |-> acc.filesRemoved + 1,
                                 spaceFreed |-> acc.spaceFreed + rows[1].size,
                                 moved |-> acc.moved \cup {rows[1].path}]
                           ELSE acc,
                           Tail(rows))

\* duplicates.forEach(group): the original is kept, the others are moved
RECURSIVE removeGroups(_, _, _)
removeGroups(acc, tbl, groups) ==
    IF groups = <<>> THEN acc
    ELSE LET rows == getFilesByHash(tbl, groups[1].hash)
         IN removeGroups(IF noDuplicates(rows) THEN acc
                         ELSE moveEachCaught(acc, duplicateFilesOf(rows, chooseOriginal(rows))),
                         tbl, Tail(groups))

\* the orders in which getDuplicates.all() can return the groups
Orders(S) ==
    {q \in [1 .. Cardinality(S) -> S] : \A i, j \in 1 .. Cardinality(S) : q[i] = q[j] => i = j}

\* autoRemoveDuplicates(), called by main between the scan and startServer
AutoRemoveDuplicates ==
    /\ pc = "serving"
    /\ resp.status = 0
    /\ auto.run < runs
    /\ \E duplicates \in Orders(getDuplicates(files)) :
         LET done == removeGroups([fs |-> fs, filesRemoved |-> 0, spaceFreed |-> 0,
                                   moved |-> {}],
                                  files, duplicates)
         IN /\ \A g \in getDuplicates(files) : InReach(getFilesByHash(files, g.hash))
            /\ fs' = done.fs
            /\ changed' = (changed \/ done.filesRemoved > 0)
            /\ auto' = [run |-> runs, success |-> TRUE,
                        setsProcessed |-> Len(duplicates),
                        filesRemoved |-> done.filesRemoved,
                        spaceFreed |-> done.spaceFreed,
                        moved |-> done.moved]
    /\ UNCHANGED <<argv, dbLocked, filesAtStart, txn,
                   targetDirName, pathSep, call, dbFile, files, meta, pc, dbExists, stack, cur,
                   progress, counters, resp, runs, ext, goneAtStart,
                   lastDone, result, db, exitCode>>

\* any tree on a POSIX platform
InitAuto ==
    /\ Init
    /\ pathSep = Slash

NextAuto ==
    \/ Next
    \/ AutoRemoveDuplicates

SpecAuto == InitAuto /\ [][NextAuto]_vars

\* ---------------------------------- reconciliation, statement by statement
\* scanDirectory when no store existed at launch
ScanStartFresh ==
    /\ ~dbExists
    /\ ScanStart

\* scanDirectory when the store existed at launch, up to transaction(): the
\* metadata, the counting pre-pass, the total with its buffer, SELECT of all
\* rows, BEGIN
CleanupBegin ==
    /\ pc = "main"
    /\ dbExists
    /\ pc' = "cleanup"
    /\ meta' = [meta EXCEPT !.scan_start_time = runs]
    /\ progress' = [totalFiles |-> countFiles(fs, targetDir) + ProgressBuffer,
                    processedFiles |-> 0]
    /\ counters' = ZeroCounters
    /\ txn' = [rows |-> SortRows(files), deleted |-> {}]
    /\ changed' = FALSE
    /\ filesAtStart' = files
    /\ goneAtStart' = {r.path : r \in MissingRows(files, fs)}
    /\ lastDone' = [lastDone EXCEPT !.same = @ /\ ~changed]
    /\ UNCHANGED <<auto, argv, dbLocked,
                   targetDirName, pathSep, call, fs, dbFile, files, dbExists, stack, cur,
                   resp, runs, ext, result, db, exitCode>>

\* mutant: the DELETE is run outside a transaction and takes effect at once
CleanupStep_Autocommit ==
    /\ pc = "cleanup"
    /\ txn.rows # <<>>
    /\ LET file == Head(txn.rows)
       IN IF ~existsFile(fs, pathJoin(file.path))
          THEN /\ txn' = [rows |-> Tail(txn.rows), deleted |-> txn.deleted \cup {file}]
               /\ files' = files \ {file}
               /\ counters' = [counters EXCEPT !.removedCount = @ + 1,
                                               !.removedSize = @ + file.size]
               /\ progress' = [progress EXCEPT !.processedFiles = @ + 1]
          ELSE /\ txn' = [txn EXCEPT !.rows = Tail(@)]
               /\ UNCHANGED <<files, counters, progress>>
    /\ UNCHANGED <<auto, argv, dbLocked, filesAtStart,
                   targetDirName, pathSep, call, fs, dbFile, meta, pc, dbExists, stack, cur,
                   resp, runs, ext, changed, goneAtStart, lastDone, result, db, exitCode>>

\* one iteration of the loop inside the transaction: the DELETE of a row whose
\* file is gone stays uncommitted
CleanupStep ==
    /\ pc = "cleanup"
    /\ txn.rows # <<>>
    /\ LET file == Head(txn.rows)
       IN IF ~existsFile(fs, pathJoin(file.path))
          THEN /\ txn' = [rows |-> Tail(txn.rows), deleted |-> txn.deleted \cup {file}]
               /\ counters' = [counters EXCEPT !.removedCount = @ + 1,
                                               !.removedSize = @ + file.size]
               /\ progress' = [progress EXCEPT !.processedFiles = @ + 1]
          ELSE /\ txn' = [txn EXCEPT !.rows = Tail(@)]
               /\ UNCHANGED <<counters, progress>>
    /\ UNCHANGED <<auto, argv, dbLocked, filesAtStart,
                   targetDirName, pathSep, call, fs, dbFile, files, meta, pc, dbExists,
                   stack, cur, resp, runs, ext, changed, goneAtStart, lastDone, result,
                   db, exitCode>>

\* COMMIT at the end of the loop, then the listing of the target
CleanupCommit ==
    /\ pc = "cleanup"
    /\ txn.rows = <<>>
    /\ txn' = NoTxn
    /\ files' = files \ txn.deleted
    /\ Continue(<<[dir |-> targetDir, entries |-> readdirSync(fs, targetDir)]>>,
                files \ txn.deleted, counters, meta, lastDone, changed)
    /\ UNCHANGED <<auto, argv, dbLocked, filesAtStart,
                   targetDirName, pathSep, call, fs, dbFile, dbExists, progress, counters,
                   resp, runs, ext, changed, goneAtStart>>

\* the plain target on POSIX
InitTxn ==
    /\ Init
    /\ targetDirName = PlainDirName
    /\ pathSep = Slash

NextTxn ==
    \/ Environment
    \/ Launch
    \/ ScanStartFresh
    \/ CleanupBegin
    \/ CleanupStep
    \/ CleanupCommit
    \/ ProcessEntry
    \/ HashDone
    \/ \E h \in Hashes : KeepOriginal(h)

SpecTxn == InitTxn /\ [][NextTxn]_vars

\* ------------------------------------------- direct calls of the exports
\* names of directory entries: "a", "b" and, where the platform allows a
\* backslash in a name, "a\b"
EntryNames ==
    IF pathSep = Slash THEN {<<97>>, <<98>>, <<97, Backslash, 98>>}
    ELSE {<<97>>, <<98>>}

\* the relative paths processDirectory can hand to parseFilePath: entries of
\* the target and of its subdirectories
TraversalPaths ==
    {relative(<<targetDirName, n>>) : n \in EntryNames}
        \cup {relative(<<targetDirName, d, n>>) : d \in EntryNames, n \in EntryNames}

\* the module not yet imported; two path strings to call parseFilePath with
InitUnit ==
    /\ targetDirName = PlainDirName
    /\ pathSep \in {Slash, Backslash}
    /\ fs = [l \in Locs(targetDirName) |-> Absent]
    /\ call \in {[NoCall EXCEPT !.args = <<p, q>>] :
                    p \in TraversalPaths \cup {<<>>}, q \in TraversalPaths \cup {<<>>}}
    /\ Idle

\* parseFilePath(p), parseFilePath(q): no statement of the function throws
ParseFilePathCall ==
    /\ call.seq < MaxCalls
    /\ call.fn # "parseFilePath"
    /\ call' = [call EXCEPT !.seq = @ + 1,
                            !.fn = "parseFilePath",
                            !.ret = <<[threw |-> FALSE, value |-> parseFilePath(call.args[1])],
                                      [threw |-> FALSE, value |-> parseFilePath(call.args[2])]>>]
    /\ UNCHANGED <<auto, argv, dbLocked, filesAtStart, txn,
                   targetDirName, pathSep, fs, dbFile, files, meta, pc, dbExists, stack,
                   cur, progress, counters, resp, db, exitCode, runs, ext, changed,
                   goneAtStart, lastDone, result>>

\* closeDatabase() (held: history, whether a connection was held)
CloseDatabaseCall ==
    /\ call.seq < MaxCalls
    /\ db' = closeDatabase(db).db
    /\ call' = [call EXCEPT !.seq = @ + 1,
                            !.fn = "closeDatabase",
                            !.ret = [threw |-> closeDatabase(db).threw,
                                     held |-> db.handle # 0]]
    /\ UNCHANGED <<auto, argv, dbLocked, filesAtStart, txn,
                   targetDirName, pathSep, fs, dbFile, files, meta, pc, dbExists, stack,
                   cur, progress, counters, resp, exitCode, runs, ext, changed,
                   goneAtStart, lastDone, result>>

\* initializeDatabase(): the store file is created when it is not there
InitializeDatabaseCall ==
    /\ call.seq < MaxCalls
    /\ db' = initializeDatabase(db)
    /\ dbFile' = TRUE
    /\ call' = [call EXCEPT !.seq = @ + 1,
                            !.fn = "initializeDatabase",
                            !.ret = [threw |-> FALSE, held |-> db.handle # 0]]
    /\ UNCHANGED <<auto, argv, dbLocked, filesAtStart, txn,
                   targetDirName, pathSep, fs, files, meta, pc, dbExists, stack,
                   cur, progress, counters, resp, exitCode, runs, ext, changed,
                   goneAtStart, lastDone, result>>

NextUnit ==
    \/ ParseFilePathCall
    \/ CloseDatabaseCall
    \/ InitializeDatabaseCall

SpecUnit == InitUnit /\ [][NextUnit]_vars

\* ------------------------------------------- main of index.js (skips scans)
\* mutant: the scan is run whatever the metadata says
LaunchIndex_AlwaysScan ==
    /\ pc = "off"
    /\ runs < MaxRuns
    /\ runs' = runs + 1
    /\ dbExists' = dbFile
    /\ dbFile' = TRUE
    /\ db' = IF dbFile THEN initializeDatabase(initializeDatabase(NullDb))
             ELSE initializeDatabase(NullDb)
    /\ exitCode' = "none"
    /\ pc' = "main"
    /\ resp' = [NoResp EXCEPT !.seq = resp.seq]
    /\ argv' = [force |-> FALSE]
    /\ dbLocked' = FALSE
    /\ UNCHANGED <<auto, filesAtStart, txn,
                   targetDirName, pathSep, call, fs, files, meta, stack, cur, progress,
                   counters, ext, changed, goneAtStart, lastDone, result>>

\* launch without --force: the imports, then main of index.js: when the store
\* file existed, initializeDatabase() and getMeta(END_TIME); with an end time
\* recorded startServer() is called at once, otherwise scanDirectory
LaunchIndex ==
    /\ pc = "off"
    /\ runs < MaxRuns
    /\ runs' = runs + 1
    /\ dbExists' = dbFile
    /\ dbFile' = TRUE
    /\ db' = IF dbFile THEN initializeDatabase(initializeDatabase(NullDb))
             ELSE initializeDatabase(NullDb)
    /\ exitCode' = "none"
    /\ pc' = IF dbFile /\ meta.scan_end_time # 0 THEN "serving" ELSE "main"
    /\ resp' = [NoResp EXCEPT !.seq = resp.seq]
    /\ argv' = [force |-> FALSE]
    /\ dbLocked' = FALSE
    /\ UNCHANGED <<auto, filesAtStart, txn,
                   targetDirName, pathSep, call, fs, files, meta, stack, cur, progress,
                   counters, ext, changed, goneAtStart, lastDone, result>>

\* the plain target on POSIX
InitIndex ==
    /\ Init
    /\ targetDirName = PlainDirName
    /\ pathSep = Slash

NextIndex ==
    \/ Environment
    \/ LaunchIndex
    \/ LaunchForce
    \/ ForceRemove
    \/ ScanStart
    \/ ProcessEntry
    \/ HashDone
    \/ \E h \in Hashes : KeepOriginal(h)

SpecIndex == InitIndex /\ [][NextIndex]_vars

\* ------------------------------------------- direct calls of the statements
\* the paths of the rows the statements are run on
StorePaths ==
    {JoinWith(<<PlainDirName>> \o l, Slash) :
        l \in {<<<<106>>>>, <<<<107>>>>, <<<<49>>, <<121>>>>, <<<<49>>, <<122>>>>}}

RECURSIVE Reverse(_)
Reverse(q) == IF q = <<>> THEN <<>> ELSE Reverse(Tail(q)) \o <<Head(q)>>

\* the rows getDuplicates can return for one choice rep of the row that gives
\* a group its bare columns path and size
GroupsOf(tbl, rep) ==
    {[path |-> rep[g.hash].path, hash |-> g.hash, size |-> rep[g.hash].size,
      count |-> g.count] : g \in getDuplicates(tbl)}

\* mutant: ORDER BY path DESC
getDuplicatesAll_Descending(tbl) ==
    {Reverse(SortRows(GroupsOf(tbl, rep))) :
        rep \in {f \in [{g.hash : g \in getDuplicates(tbl)} -> tbl] :
                    \A h \in DOMAIN f : f[h].hash = h}}

\* getDuplicates.all(): SELECT path, hash, size, COUNT(*) as count FROM files
\* GROUP BY hash HAVING count > 1 ORDER BY path; the bare columns of a group
\* are those of one of its rows, which one is not specified
getDuplicatesAll(tbl) ==
    {SortRows(GroupsOf(tbl, rep)) :
        rep \in {f \in [{g.hash : g \in getDuplicates(tbl)} -> tbl] :
                    \A h \in DOMAIN f : f[h].hash = h}}

\* the module imported on an empty store, no statement run yet
InitStore ==
    /\ targetDirName = PlainDirName
    /\ pathSep = Slash
    /\ fs = [l \in Locs(targetDirName) |-> Absent]
    /\ call = NoCall
    /\ Idle

\* insertFile.run({id, path, hash, size})
InsertFileCall(p, h, size) ==
    /\ call.fn = "none"
    /\ insertFile(files, [id |-> parseFilePath(p).id, path |-> p,
                          hash |-> h, size |-> size]).ok
    /\ files' = insertFile(files, [id |-> parseFilePath(p).id, path |-> p,
                                   hash |-> h, size |-> size]).files
    /\ UNCHANGED <<auto, argv, dbLocked, filesAtStart, txn,
                   targetDirName, pathSep, call, fs, dbFile, meta, pc, dbExists, stack,
                   cur, progress, counters, resp, db, exitCode, runs, ext, changed,
                   goneAtStart, lastDone, result>>

\* getDuplicates.all()
GetDuplicatesCall ==
    /\ call.fn = "none"
    /\ \E rows \in getDuplicatesAll(files) :
         call' = [NoCall EXCEPT !.seq = 1, !.fn = "getDuplicates", !.ret = rows]
    /\ UNCHANGED <<auto, argv, dbLocked, filesAtStart, txn,
                   targetDirName, pathSep, fs, dbFile, files, meta, pc, dbExists, stack,
                   cur, progress, counters, resp, db, exitCode, runs, ext, changed,
                   goneAtStart, lastDone, result>>

NextStore ==
    \/ \E p \in StorePaths, h \in Hashes, c \in Contents : InsertFileCall(p, h, SizeOf(c))
    \/ GetDuplicatesCall

SpecStore == InitStore /\ [][NextStore]_vars

\* ------------------------------------- the progress tracker during a scan
\* a scan not started: m records of the store name files that are gone, n
\* files are in the tree
InitProgress ==
    /\ targetDirName = PlainDirName
    /\ pathSep = Slash
    /\ fs = [l \in Locs(targetDirName) |-> Absent]
    /\ call \in {[NoCall EXCEPT !.args = <<m, n>>] :
                    m \in {0, 1, MaxMissing - 1, MaxMissing}, n \in 0 .. MaxCount}
    /\ Idle

\* scanDirectory: new ProgressTracker(), countFiles, setTotalFiles with the
\* buffer when the store existed at launch (resume)
SetTotalFiles(resume) ==
    /\ pc = "off"
    /\ runs < 1
    /\ runs' = runs + 1
    /\ dbExists' = resume
    /\ progress' = [totalFiles |-> IF resume THEN call.args[2] + ProgressBuffer
                                   ELSE call.args[2],
                    processedFiles |-> 0]
    /\ counters' = ZeroCounters
    /\ pc' = IF resume THEN "cleanup" ELSE "walk"
    /\ UNCHANGED <<auto, argv, dbLocked, filesAtStart, txn,
                   targetDirName, pathSep, call, fs, dbFile, files, meta, stack, cur,
                   resp, db, exitCode, ext, changed, goneAtStart, lastDone, result>>

\* cleanupMissingFiles: a row whose file is gone; removedCount++,
\* progress.incrementProcessed()
CleanupIncrement ==
    /\ pc = "cleanup"
    /\ counters.removedCount < call.args[1]
    /\ counters' = [counters EXCEPT !.removedCount = @ + 1]
    /\ progress' = [progress EXCEPT !.processedFiles = @ + 1]
    /\ UNCHANGED <<auto, argv, dbLocked, filesAtStart, txn,
                   targetDirName, pathSep, call, fs, dbFile, files, meta, pc, dbExists,
                   stack, cur, resp, db, exitCode, runs, ext, changed, goneAtStart,
                   lastDone, result>>

\* cleanupMissingFiles returns, processDirectory starts
CleanupReturn ==
    /\ pc = "cleanup"
    /\ counters.removedCount = call.args[1]
    /\ pc' = "walk"
    /\ UNCHANGED <<auto, argv, dbLocked, filesAtStart, txn,
                   targetDirName, pathSep, call, fs, dbFile, files, meta, dbExists,
                   stack, cur, progress, counters, resp, db, exitCode, runs, ext,
                   changed, goneAtStart, lastDone, result>>

\* processDirectory: a file skipped or inserted; progress.incrementProcessed()
TraversalIncrement ==
    /\ pc = "walk"
    /\ counters.newFilesAdded < call.args[2]
    /\ counters' = [counters EXCEPT !.newFilesAdded = @ + 1]
    /\ progress' = [progress EXCEPT !.processedFiles = @ + 1]
    /\ UNCHANGED <<auto, argv, dbLocked, filesAtStart, txn,
                   targetDirName, pathSep, call, fs, dbFile, files, meta, pc, dbExists,
                   stack, cur, resp, db, exitCode, runs, ext, changed, goneAtStart,
                   lastDone, result>>

NextProgress ==
    \/ \E resume \in BOOLEAN : SetTotalFiles(resume)
    \/ CleanupIncrement
    \/ CleanupReturn
    \/ TraversalIncrement

SpecProgress == InitProgress /\ [][NextProgress]_vars

\* ------------------------------------------------- the open-file request
\* vars.js: baseDir, here /h/b
baseDirSegs == <<<<104>>, <<98>>>>

\* an absolute path as a string
AbsString(segs) == <<Slash>> \o JoinWith(segs, Slash)

\* the files of the disk: /h/b/t/j under the base directory, /h/bx/s in a
\* sibling of it, /h/s in its parent
DiskFiles ==
    {baseDirSegs \o <<<<116>>, <<106>>>>,
     <<<<104>>, <<98, 120>>, <<115>>>>,
     <<<<104>>, <<115>>>>}

\* fs.existsSync(p): a file or a directory is at p
existsSync(segs) == \E f \in DiskFiles : \E n \in 0 .. Len(f) : SubSeq(f, 1, n) = segs

\* path.normalize of the segments: '.' and empty segments go, '..' takes the
\* segment before it away (nothing is above the root)
RECURSIVE normalizeSegs(_, _)
normalizeSegs(done, rest) ==
    IF rest = <<>> THEN done
    ELSE IF Head(rest) = <<>> \/ Head(rest) = <<46>> THEN normalizeSegs(done, Tail(rest))
    ELSE IF Head(rest) = <<46, 46>>
    THEN normalizeSegs(IF done = <<>> THEN <<>> ELSE SubSeq(done, 1, Len(done) - 1),
                       Tail(rest))
    ELSE normalizeSegs(Append(done, Head(rest)), Tail(rest))

\* path.join(baseDir, req.body.path)
joinBase(p) == normalizeSegs(baseDirSegs, SplitOn(p, Slash))

\* String.prototype.startsWith
startsWith(str, prefix) ==
    Len(prefix) <= Len(str) /\ SubSeq(str, 1, Len(prefix)) = prefix

\* the segments a request path is made of: '..', 't', 'j', 'bx', 's'
RequestSegs == {<<46, 46>>, <<116>>, <<106>>, <<98, 120>>, <<115>>}

\* req.body.path: up to three segments
RequestPaths ==
    {JoinWith(q, Slash) : q \in UNION {[1 .. n -> RequestSegs] : n \in 1 .. MaxSegs}}

\* the server started, no request made
InitOpen ==
    /\ targetDirName = PlainDirName
    /\ pathSep = Slash
    /\ fs = [l \in Locs(targetDirName) |-> Absent]
    /\ call \in {[NoCall EXCEPT !.args = <<p>>] : p \in RequestPaths}
    /\ Idle

\* POST /api/open-file: 404 when the path does not exist or does not start
\* with baseDir, otherwise exec of the opener on it (200, or 500 when the
\* opener fails)
OpenFile ==
    /\ call.fn = "none"
    /\ LET filePath == joinBase(call.args[1])
       IN IF ~existsSync(filePath)
             \/ ~startsWith(AbsString(filePath), AbsString(baseDirSegs))
          THEN call' = [call EXCEPT !.seq = 1, !.fn = "openFile",
                                    !.ret = [status |-> 404, exec |-> <<>>]]
          ELSE \E status \in {200, 500} :
                 call' = [call EXCEPT !.seq = 1, !.fn = "openFile",
                                      !.ret = [status |-> status, exec |-> filePath]]
    /\ UNCHANGED <<auto, argv, dbLocked, filesAtStart, txn,
                   targetDirName, pathSep, fs, dbFile, files, meta, pc, dbExists, stack,
                   cur, progress, counters, resp, db, exitCode, runs, ext, changed,
                   goneAtStart, lastDone, result>>

NextOpen == OpenFile

SpecOpen == InitOpen /\ [][NextOpen]_vars

\* ================================================================== claims
\* a keep-original request is answered in this step
Answered == resp'.seq = resp.seq + 1

RowsOf(tbl, h) == {r \in tbl : r.hash = h}

\* the non-canonical members of the group the last answer was about
OthersOf(r) == {i \in 1 .. Len(r.rows) : r.rows[i].path # r.kept}

\* C1: after a keep-original answered with success on a digest with N >= 2
\* records, the store holds exactly one record with that digest.
C1_OneRecordLeft ==
    [][(Answered /\ resp'.status = 200)
          => Cardinality(RowsOf(files', resp'.hash)) = 1]_vars

\* C2: a keep-original request never removes the last on-disk copy of a
\* content: a content held by some file (tree or quarantine) before the
\* request is held by some file after it.
C2_LastCopySurvives ==
    [][Answered
          => \A c \in Contents :
                (\E l \in DOMAIN fs : fs[l] = c) => (\E l \in DOMAIN fs : fs'[l] = c)]_vars

\* C3: after a successful keep-original the canonical file is untouched at its
\* path and every other member is at its quarantine path, absent from its
\* original path.
C3_MovedToQuarantine ==
    [][(Answered /\ resp'.status = 200)
          => /\ fs'[pathJoin(resp'.kept)] = fs[pathJoin(resp'.kept)]
             /\ \A i \in OthersOf(resp') :
                   /\ existsFile(fs', QuarantineLoc(pathJoin(resp'.rows[i].path)))
                   /\ ~existsFile(fs', pathJoin(resp'.rows[i].path))]_vars

\* C4: the canonical record is a member with the shortest path, and among the
\* members of that length the first in lexicographic order.
C4_ShortestThenFirst ==
    resp.status = 200
        => /\ \E r \in RowsOf(files, resp.hash) : r.path = resp.kept
           /\ \A r \in RowsOf(files, resp.hash) :
                 \/ Len(resp.kept) < Len(r.path)
                 \/ /\ Len(resp.kept) = Len(r.path)
                    /\ (r.path = resp.kept \/ StrLess(resp.kept, r.path))

C4_Witness ==
    /\ resp.status = 200
    /\ \E r \in RowsOf(files, resp.hash) :
          r.path # resp.kept /\ Len(r.path) = Len(resp.kept)

\* C5: a keep-original request for a digest with fewer than 2 records is
\* rejected with status 400 and changes no file and no record.
C5_RejectedUntouched ==
    [][(Answered /\ Cardinality(RowsOf(files, resp'.hash)) < 2)
          => resp'.status = 400 /\ fs' = fs /\ files' = files]_vars

C5_Witness ==
    /\ resp.status = 400
    /\ Cardinality(RowsOf(files, resp.hash)) = 1

\* C6: when the move of one non-canonical member fails, the request is still
\* answered with a result (not an error) and every other non-canonical member
\* whose file is on disk is moved.
C6_FailureTolerated ==
    [][(Answered /\ Cardinality(RowsOf(files, resp'.hash)) >= 2)
          => /\ resp'.status = 200
             /\ \A i \in 1 .. Len(resp'.rows) :
                   (/\ resp'.rows[i].path # chooseOriginal(resp'.rows).path
                    /\ existsFile(fs, pathJoin(resp'.rows[i].path)))
                       => ~existsFile(fs', pathJoin(resp'.rows[i].path))]_vars

\* the bytes a formatted size stands for, times 100
Denoted100(fmt) == fmt.hundredths * Pow(UnitBase, fmt.unit)

MovedSize(tbl, r) == SumSizes({x \in RowsOf(tbl, r.hash) : x.path # r.kept})

\* C7 (as claimed): a successful answer reports the canonical path, the number
\* of files moved, and freedSpace equal to the sum of the recorded sizes of
\* the moved files.
C7_FreedSpaceIsSum ==
    [][(Answered /\ resp'.status = 200)
          => /\ resp'.kept = chooseOriginal(getFilesByHash(files, resp'.hash)).path
             /\ resp'.movedCount = resp'.renames
             /\ Denoted100(resp'.freedSpace) = 100 * MovedSize(files, resp')]_vars

\* C7 (amended): freedSpace is that sum formatted: expressed in the largest
\* unit of 1024^k bytes not above it and rounded to two decimals.
C7_FreedSpaceIsFormattedSum ==
    [][(Answered /\ resp'.status = 200)
          => /\ resp'.kept = chooseOriginal(getFilesByHash(files, resp'.hash)).path
             /\ resp'.movedCount = resp'.renames
             /\ LET sum == MovedSize(files, resp')
                    unit == Pow(UnitBase, resp'.freedSpace.unit)
                    diff == Denoted100(resp'.freedSpace) - 100 * sum
                IN /\ unit <= sum /\ sum < unit * UnitBase
                   /\ 2 * diff <= unit /\ -2 * diff <= unit]_vars

C7_Witness ==
    /\ resp.status = 200
    /\ resp.movedCount = 2
    /\ resp.freedSpace.unit = 1

\* C8: a scan that follows a completed scan, the tree unchanged from the start
\* of the first to the end of the second, inserts nothing, removes nothing and
\* leaves the same set of records.
C8_RescanIdempotent ==
    (result.done /\ result.prev.done /\ result.prev.same)
        => /\ result.newFilesAdded = 0
           /\ result.removedCount = 0
           /\ result.files = result.prev.files

C8_Witness ==
    /\ result.done /\ result.prev.done /\ result.prev.same
    /\ Cardinality(result.files) >= 2

\* a scan completes in this step
ScanCompletes == pc # "serving" /\ pc' = "serving"

FilesWith(f, c) == {l \in DOMAIN f : f[l] = c /\ IsPrefix(targetDir, l)}

\* the files holding content c, when two or more, are exactly the members of
\* one duplicate group, keyed by the digest of c, whose count is their number
OneGroup(tbl, f, c) ==
    Cardinality(FilesWith(f, c)) >= 2
        => /\ \E g \in getDuplicates(tbl) :
                 /\ g.hash = contentDigest(c)
                 /\ g.count = Cardinality(FilesWith(f, c))
           /\ \A l \in FilesWith(f, c) :
                 {g.hash : g \in {x \in getDuplicates(tbl) :
                     \E i \in 1 .. Len(getFilesByHash(tbl, x.hash)) :
                         getFilesByHash(tbl, x.hash)[i].path = relative(l)}}
                     = {contentDigest(c)}

\* C9: after a scan that completes (the tree holding still while it runs),
\* files with identical content are the members of one group whose count is
\* their number.
C9_IdenticalFilesGrouped ==
    [][(ScanCompletes /\ ~changed')
          => \A c \in Contents : OneGroup(files', fs', c)]_vars

\* C10: when a scan over an existing store completes, no path that had a
\* record but no file when the scan started has a record or is a member of a
\* duplicate group.
C10_MissingPurged ==
    pc = "serving"
        => \A p \in goneAtStart :
              /\ \A r \in files : r.path # p
              /\ \A g \in getDuplicates(files) :
                    \A i \in 1 .. Len(getFilesByHash(files, g.hash)) :
                        getFilesByHash(files, g.hash)[i].path # p

C10_Witness ==
    /\ pc = "serving"
    /\ dbExists
    /\ goneAtStart # {}

\* the files of the scanned tree
TreeFiles(f) == {l \in DOMAIN f : existsFile(f, l) /\ IsPrefix(targetDir, l)}

\* C11: when a scan completes over a tree that held still while it ran, the
\* store holds exactly one record for every file under the target and no
\* record whose path is absent from disk.
C11_EveryFileIndexed ==
    [][(ScanCompletes /\ ~changed')
          => /\ \A l \in TreeFiles(fs') :
                   Cardinality({r \in files' : pathJoin(r.path) = l}) = 1
             /\ \A r \in files' : existsFile(fs', pathJoin(r.path))]_vars

\* C12: when the hashing of a file fails during traversal, no record is
\* inserted for it and the scan goes on (to the next entry, or to its end).
C12_HashFailureSkipped ==
    [][(/\ pc = "hashing"
        /\ ~existsFile(fs, cur.loc)
        /\ pc' # "hashing"
        /\ exitCode' # "killed")
          => pc' \in {"walk", "serving"} /\ files' = files]_vars

\* C13: an insert whose id is present fails and leaves the store as it was
\* (a record is never replaced, no two records share an id), and the scanner
\* then goes on with the next entry without counting the file.
C13_InsertNeverReplaces ==
    [][/\ \A r1, r2 \in files' : r1.id = r2.id => r1 = r2
       /\ \A r \in files : (\E r2 \in files' : r2.id = r.id) => r \in files'
       /\ (/\ pc = "hashing"
           /\ pc' \in {"walk", "serving"}
           /\ \E r \in files : r.id = cur.id)
             => files' = files /\ progress' = progress]_vars

\* a fresh scan of a still tree has completed and counted fewer files than
\* the tree holds: one insert was rejected
C13_Witness ==
    /\ pc = "serving" /\ ~dbExists /\ ~changed /\ resp.seq = 0
    /\ progress.processedFiles < progress.totalFiles

\* C14: the metadata holds an end time only when the scan started last has
\* completed: from the start of a scan to its completion, and after a scan
\* that was terminated, there is none.
C14_NoEndTimeUntilComplete ==
    meta.scan_end_time \in {0, meta.scan_start_time}

\* C15: a run in resume mode after an interrupted scan hashes no file that has
\* a record by id and, when it completes over a still tree, leaves no record
\* whose path is absent from disk, a record by id for every file of the tree,
\* and the end time recorded.
C15_ResumeCompletes ==
    [][/\ (pc = "walk" /\ pc' = "hashing") => \A r \in files : r.id # cur'.id
       /\ (ScanCompletes /\ dbExists /\ ~lastDone.done /\ ~changed')
             => /\ \A r \in files' : existsFile(fs', pathJoin(r.path))
                /\ \A l \in TreeFiles(fs') :
                      \E r \in files' : r.id = parseFilePath(relative(l)).id
                /\ meta'.scan_end_time = runs]_vars

\* a resumed scan has completed: it removed a record, skipped a file that had
\* one, and inserted one
C15_Witness ==
    /\ pc = "serving" /\ dbExists
    /\ result.done /\ ~result.prev.done
    /\ result.removedCount >= 1
    /\ result.newFilesAdded >= 1
    /\ Cardinality(result.files) > result.newFilesAdded

\* C16: a digest is listed by getDuplicates exactly when two or more records
\* hold it, and the count of a listed group is the number of rows
\* getFilesByHash returns for its digest.
C16_GroupsMatchLookup ==
    /\ \A h \in Hashes \cup {r.hash : r \in files} :
          (\E g \in getDuplicates(files) : g.hash = h)
              <=> Cardinality(RowsOf(files, h)) >= 2
    /\ \A g \in getDuplicates(files) :
          g.count = Len(getFilesByHash(files, g.hash))

C16_Witness ==
    /\ \E g \in getDuplicates(files) : g.count = 2
    /\ \E h \in {r.hash : r \in files} : Cardinality(RowsOf(files, h)) = 1

\* C17: parseFilePath gives one path one id, and two distinct relative paths
\* of a traversal distinct ids.
C17_DistinctPathsDistinctIds ==
    (call.fn = "parseFilePath"
        /\ call.args[1] \in TraversalPaths /\ call.args[2] \in TraversalPaths)
        => ((call.args[1] = call.args[2])
               <=> (call.ret[1].value.id = call.ret[2].value.id))

\* C18: parseFilePath called with the empty path reports an error.
C18_EmptyPathRejected ==
    (call.fn = "parseFilePath" /\ call.args[1] = <<>>) => call.ret[1].threw

\* C19: the path of every record is the location of a file position of the
\* tree relative to the base directory, written with '/' between its segments
\* (so it begins with the name of the target).
C19_StoredPathsUseSlash ==
    \A r \in files :
        \E l \in DOMAIN fs : IsPrefix(targetDir, l) /\ r.path = JoinWith(l, Slash)

\* C20: closeDatabase called while no connection is held changes nothing and
\* raises no error, and a second call after any call changes nothing more.
C20_CloseIdempotent ==
    [][(call'.seq = call.seq + 1 /\ call'.fn = "closeDatabase")
          => /\ db.handle = 0 => (db' = db /\ ~call'.ret.threw)
             /\ closeDatabase(db').db = db'
             /\ ~closeDatabase(db').threw]_vars

\* closeDatabase was called on a store opened and closed before
C20_Witness ==
    /\ call.fn = "closeDatabase"
    /\ ~call.ret.held
    /\ db.opened >= 1

\* C21 (as stated): initializeDatabase called while a connection is held keeps
\* that connection (and the statements prepared on it) in use, and at most one
\* connection is open.
C21_ReusesConnection ==
    [][(call'.seq = call.seq + 1 /\ call'.fn = "initializeDatabase" /\ db.handle # 0)
          => /\ db'.handle = db.handle
             /\ Cardinality(db'.live) <= 1]_vars

\* C21 (amended): initializeDatabase called while a connection is held closes
\* that connection and opens a new one, on which the statements are prepared
\* again; after any call exactly one connection is open, the one held.
C21_SingleConnection ==
    [][(call'.seq = call.seq + 1 /\ call'.fn = "initializeDatabase")
          => /\ db'.live = {db'.handle}
             /\ db'.handle # 0
             /\ db.handle # 0 => (db'.handle # db.handle /\ db.handle \notin db'.live)]_vars

\* initializeDatabase was called while a connection was held
C21_Witness ==
    /\ call.fn = "initializeDatabase"
    /\ call.ret.held
    /\ db.opened >= 2

\* C22: launched with --force on an existing store, the process removes the
\* store and creates an empty one before the scan starts, and when the scan
\* completes the records are exactly the ones that scan inserted; when the
\* store file cannot be removed the process exits with code 1, the store is
\* as it was and no scan has started.
C22_ForceRebuilds ==
    [][/\ (pc = "force" /\ pc' # "force" /\ exitCode' # "killed")
            => IF dbLocked
               THEN /\ pc' = "off" /\ exitCode' = "exit1"
                    /\ files' = files /\ meta' = meta /\ dbFile'
               ELSE /\ pc' = "main" /\ files' = {}
                    /\ meta' = [scan_start_time |-> 0, scan_end_time |-> 0]
       /\ (pc' = "main" /\ argv'.force) => (files' = {} /\ ~dbLocked')
       /\ (ScanCompletes /\ argv.force)
            => /\ filesAtStart' = {}
               /\ Cardinality(files') = result'.newFilesAdded]_vars

\* a forced scan over a store that held records has completed and inserted
\* records
C22_Witness ==
    /\ pc = "serving"
    /\ argv.force
    /\ result.done
    /\ result.prev.done
    /\ result.prev.files # {}
    /\ result.newFilesAdded >= 1
    /\ meta.scan_end_time = runs

\* the members of the group of digest h that autoRemoveDuplicates is to move
AutoOthers(tbl, h) ==
    {r \in RowsOf(tbl, h) : r.path # chooseOriginal(getFilesByHash(tbl, h)).path}

\* C23: autoRemoveDuplicates leaves the canonical file of every duplicate
\* group at its path, every other member whose file is on disk is afterwards
\* at <base>/@duplicates/<its relative path> and no more at its own path,
\* filesRemoved is the number of files moved and spaceFreed the sum of their
\* recorded sizes.
C23_AutoRemoveMovesOthers ==
    [][auto'.run # auto.run
          => \A g \in getDuplicates(files) :
               LET original == chooseOriginal(getFilesByHash(files, g.hash))
               IN /\ fs'[pathJoin(original.path)] = fs[pathJoin(original.path)]
                  /\ \A r \in AutoOthers(files, g.hash) :
                       existsFile(fs, pathJoin(r.path))
                          => /\ fs'[QuarantineLoc(pathJoin(r.path))] = fs[pathJoin(r.path)]
                             /\ ~existsFile(fs', pathJoin(r.path))
                  /\ auto'.filesRemoved
                        = Cardinality({r \in AutoOthers(files, g.hash) :
                                          existsFile(fs, pathJoin(r.path))})
                  /\ auto'.spaceFreed
                        = SumSizes({r \in AutoOthers(files, g.hash) :
                                       existsFile(fs, pathJoin(r.path))})]_vars

\* C24: when a keep-original request is answered, every member whose
\* quarantine destination already held a file is still at its own path and
\* the file at the destination is as it was.
C24_NoOverwriteInQuarantine ==
    [][Answered
          => \A i \in 1 .. Len(resp'.rows) :
               LET sourcePath == pathJoin(resp'.rows[i].path)
                   destPath == QuarantineLoc(sourcePath)
               IN (/\ resp'.rows[i].path # resp'.kept
                   /\ existsFile(fs, sourcePath)
                   /\ existsFile(fs, destPath))
                     => /\ fs'[destPath] = fs[destPath]
                        /\ fs'[sourcePath] = fs[sourcePath]]_vars

\* C25: no step of a scan changes or removes the record of a path that is on
\* disk, and the scan starts hashing no file whose path has a record, whatever
\* the content of the file is now.
C25_ExistingRecordsUntouched ==
    [][(pc = "main" \/ pc = "walk" \/ pc = "hashing")
          => /\ \A r \in files : existsFile(fs, pathJoin(r.path)) => r \in files'
             /\ (pc = "walk" /\ pc' = "hashing")
                   => (\A r \in files : pathJoin(r.path) # cur'.loc)]_vars

\* a rescan has completed over a file whose content is no more the recorded one
C25_Witness ==
    /\ pc = "serving"
    /\ dbExists
    /\ ~changed
    /\ meta.scan_end_time = runs
    /\ \E r \in files :
         /\ existsFile(fs, pathJoin(r.path))
         /\ r.hash # contentDigest(fs[pathJoin(r.path)])

\* C26: while the reconciliation pass runs the store holds the rows it held
\* when the pass began, and a step taken during the pass (the process stopping
\* included) leaves them all, except the commit after the last row, which
\* removes every row the pass deleted.
C26_ReconciliationAtomic ==
    [][pc = "cleanup"
          => /\ files = filesAtStart
             /\ \/ files' = filesAtStart
                \/ /\ txn.rows = <<>>
                   /\ pc' # "off"
                   /\ files' = filesAtStart \ txn.deleted]_vars

\* the process was stopped inside the pass after a row had been deleted
C26_Witness ==
    /\ pc = "off"
    /\ exitCode = "killed"
    /\ meta.scan_start_time = runs
    /\ counters.removedCount >= 1
    /\ counters.newFilesAdded = 0
    /\ files = filesAtStart
    /\ MissingRows(files, fs) # {}

\* C27: when a scan over an existing store completes and the disk did not
\* change while it ran, no record names a path whose file is gone (the paths
\* of the files that resolution moved away among them), so the records of
\* every digest are records of files on disk; the records of the files that
\* were on disk when the scan started are all kept.
C27_MovedFilesPurged ==
    [][(ScanCompletes /\ dbExists /\ ~changed')
          => /\ \A r \in files' : existsFile(fs', pathJoin(r.path))
             /\ \A r \in files' : r.path \notin goneAtStart'
             /\ \A r \in filesAtStart' :
                   existsFile(fs', pathJoin(r.path)) => r \in files']_vars

\* a scan has completed that found missing the files a keep-original request
\* of an earlier run had moved (nothing else changed the disk)
C27_Witness ==
    /\ pc = "serving"
    /\ dbExists
    /\ ~changed
    /\ ext = 0
    /\ meta.scan_end_time = runs
    /\ goneAtStart # {}
    /\ resp.seq >= 1
    /\ resp.status = 0

\* C28: at most one file is being hashed: while the hash of a file is pending
\* the scanner takes no entry, starts no other hash and inserts no row; the
\* hash of a file starts only when none is pending, and the step that settles
\* a pending hash is the one that inserts the row of that file, or ends the
\* scan.
C28_OneFileAtATime ==
    [][/\ (pc = "hashing" /\ pc' = "hashing")
            => (cur' = cur /\ stack' = stack /\ files' = files)
       /\ (pc' = "hashing" /\ cur' # cur) => (pc = "walk" /\ cur = NoFile)
       /\ (pc = "hashing" /\ pc' # "hashing" /\ pc' # "off")
            => (cur' = NoFile /\ \E r \in files' : r.id = cur.id)
       /\ (pc' = "hashing") => cur' # NoFile
       /\ (pc' # "hashing") => cur' = NoFile]_vars

\* a second file is being hashed after the row of the first was inserted
C28_Witness ==
    /\ pc = "hashing"
    /\ counters.newFilesAdded >= 1
    /\ \A r \in files : r.id # cur.id

\* scanDirectory starts in this step
ScanBegins == meta'.scan_start_time = runs' /\ meta.scan_start_time # runs'

\* C29 (as stated): the total given to the progress tracker when a scan
\* starts is the number of files of the tree, whether or not the store
\* existed at launch, and the processed count never decreases during a scan.
C29_TotalIsFileCount ==
    [][/\ ScanBegins => progress'.totalFiles = Cardinality(TreeFiles(fs))
       /\ (pc = "walk" \/ pc = "hashing")
            => progress'.processedFiles >= progress.processedFiles]_vars

\* C29 (amended): the total given to the progress tracker when a scan starts
\* is the number of files of the tree when no store existed at launch, and
\* that number plus 500 when one existed; the processed count never decreases
\* during a scan.
C29_TotalIsCountPlusBuffer ==
    [][/\ ScanBegins
            => progress'.totalFiles
                  = Cardinality(TreeFiles(fs)) + (IF dbExists THEN 500 ELSE 0)
       /\ (pc = "walk" \/ pc = "hashing")
            => (/\ progress'.processedFiles >= progress.processedFiles
                /\ progress'.totalFiles = progress.totalFiles)]_vars

\* a scan over an existing store is under way and has processed a file
C29_Witness ==
    /\ pc = "walk"
    /\ dbExists
    /\ progress.totalFiles > ProgressBuffer
    /\ progress.processedFiles >= 1

\* the sum of the sizes of a set of rows
RECURSIVE SizeSum(_)
SizeSum(S) ==
    IF S = {} THEN 0
    ELSE LET r == CHOOSE x \in S : TRUE IN r.size + SizeSum(S \ {r})

\* C30: when a scan completes, its new-file count and size are the number
\* and the summed size of the rows the store holds now and did not hold when
\* the scan started, its removed-file count and size are those of the rows
\* held then and no more now, and the number of rows now is the number then,
\* less the removed, plus the new.
C30_AggregateResultExact ==
    [][ScanCompletes
          => LET inserted == files' \ filesAtStart'
                 removed == filesAtStart' \ files'
             IN /\ result'.newFilesAdded = Cardinality(inserted)
                /\ result'.newFilesSize = SizeSum(inserted)
                /\ result'.removedCount = Cardinality(removed)
                /\ result'.removedSize = SizeSum(removed)
                /\ Cardinality(files')
                      = Cardinality(filesAtStart') - result'.removedCount
                           + result'.newFilesAdded]_vars

\* a completed scan removed records of 1500 bytes or more in all and inserted
\* a record
C30_Witness ==
    /\ pc = "serving"
    /\ result.done
    /\ result.removedCount >= 1
    /\ result.removedSize >= 1500
    /\ result.newFilesAdded >= 1
    /\ result.newFilesSize >= 100

\* a precedes b in the depth-first walk that takes the entries of every
\* directory in listing order
DfsLess(a, b) ==
    \E i \in 1 .. Len(a) :
        /\ i <= Len(b)
        /\ SubSeq(a, 1, i - 1) = SubSeq(b, 1, i - 1)
        /\ StrLess(a[i], b[i])

\* C31: a record is inserted only after the records of this scan for files
\* that come earlier in the depth-first walk in listing order: every record
\* inserted before it in the scan is of a file that precedes it in that walk.
C31_DepthFirstListingOrder ==
    [][\A r \in files' \ files :
          \A q \in files \ filesAtStart :
              DfsLess(pathJoin(q.path), pathJoin(r.path))]_vars

\* a scan has inserted the record of a file of a subdirectory and then the
\* record of a later sibling of that subdirectory
C31_Witness ==
    /\ meta.scan_start_time = runs
    /\ \E q \in files \ filesAtStart, r \in files \ filesAtStart :
         /\ Len(pathJoin(q.path)) = 3
         /\ Len(pathJoin(r.path)) = 2
         /\ DfsLess(pathJoin(q.path), pathJoin(r.path))

\* C32: the groups getDuplicates returns come in ascending order of the path
\* each carries, one group for every digest that two or more records share,
\* and the path a group carries is the path of a record of that group.
C32_GroupsOrderedByPath ==
    [][(call'.fn = "getDuplicates" /\ call.fn = "none")
          => /\ \A i, j \in 1 .. Len(call'.ret) :
                   i < j => StrLess(call'.ret[i].path, call'.ret[j].path)
             /\ \A i \in 1 .. Len(call'.ret) :
                   /\ call'.ret[i].count >= 2
                   /\ \E r \in files :
                        r.path = call'.ret[i].path /\ r.hash = call'.ret[i].hash
             /\ {call'.ret[i].hash : i \in 1 .. Len(call'.ret)}
                   = {r.hash : r \in {x \in files : \E y \in files \ {x} : y.hash = x.hash}}]_vars

\* getDuplicates returned two groups, the second carrying the path of a
\* record that is not the first of its group
C32_Witness ==
    /\ call.fn = "getDuplicates"
    /\ Len(call.ret) = 2
    /\ \E r \in files :
         r.hash = call.ret[2].hash /\ StrLess(r.path, call.ret[2].path)

\* C33: the member a successful keep-original keeps is the first row of the
\* group in path order, the one the console report marks KEEP and the
\* dashboard marks Original.
C33_ReportedIsKept ==
    [][(Answered /\ resp'.status = 200) => resp'.kept = resp'.rows[1].path]_vars

\* C34: a keep-original request for the digest of the request answered with
\* success just before it (same run, so no scan in between) is answered 400
\* and leaves the disk and the store as they are.
C34_RepeatIsRejected ==
    [][(Answered /\ resp.status = 200 /\ resp'.hash = resp.hash)
          => (resp'.status = 400 /\ fs' = fs /\ files' = files)]_vars

\* C35: the records that share a digest have the same size.
C35_SameDigestSameSize ==
    \A r \in files, q \in files : r.hash = q.hash => r.size = q.size

\* C36: the processed count of the progress tracker is at most its total.
C36_ProcessedAtMostTotal ==
    progress.processedFiles <= progress.totalFiles

\* C37: no record has a path under the quarantine directory <base>/@duplicates.
C37_QuarantineNeverIndexed ==
    \A r \in files : ~IsPrefix(<<DuplicatesDirName>>, pathJoin(r.path))

\* C38: a keep-original request is answered only when the scan of this run
\* has completed: the process is serving, no directory is being walked, no
\* hash is pending, and the end time of this run's scan is recorded.
C38_NoResolutionDuringScan ==
    [][Answered
          => /\ pc = "serving" /\ pc' = "serving"
             /\ stack = <<>>
             /\ cur = NoFile
             /\ meta.scan_start_time = runs
             /\ meta.scan_end_time = runs]_vars

\* a request was answered with success after the scan of a second run
C38_Witness ==
    /\ pc = "serving"
    /\ runs = 2
    /\ dbExists
    /\ resp.status = 200
    /\ meta.scan_end_time = runs

InsideBase(segs) ==
    Len(segs) >= Len(baseDirSegs) /\ SubSeq(segs, 1, Len(baseDirSegs)) = baseDirSegs

\* C40: an open-file request whose path resolves to a place outside the tree
\* of the base directory is answered 404 and runs no opener.
C40_OpenStaysInsideBase ==
    (call.fn = "openFile" /\ ~InsideBase(joinBase(call.args[1])))
        => (call.ret.status = 404 /\ call.ret.exec = <<>>)

====
